---- MODULE Spec2Model ----
(***************************************************************************)
(* HotelAPI: the Express routers of src/src/routes/rooms.js (rooms,        *)
(* locations and reservations, mounted by src/src/app.js), the bearer      *)
(* token middleware they name and the data store they query.               *)
(*                                                                         *)
(* A request lives in a slot.  The router sends it through the route's     *)
(* middleware chain: authMiddleware on the gated routes, then the handler. *)
(* A handler runs up to its single `await supabase...` (validation first,  *)
(* on POST and PUT), the store executes the query atomically, and the      *)
(* handler resumes to map {data, error} to a status and a JSON body.       *)
(*                                                                         *)
(* JSON values are written as JavaScript literals ("80", "'101'",          *)
(* "undefined"), so that truthiness is decided as JavaScript decides it.   *)
(* A row is its id and the required fields; created_at, which no handler   *)
(* reads or writes, is left out.                                           *)
(***************************************************************************)
EXTENDS Integers, Sequences, FiniteSets, TLC

\* ------------------------------------------------------------------ bounds
\* Identifiers the store can generate per table.
MaxId == 2
\* Records the store can create over a run, all tables together.
MaxTotal == 2
\* Requests in flight at once in SpecConc (Spec handles one at a time).
MaxReq == 2

\* --------------------------------------------------------------- constants
Resources == {"rooms", "locations", "reservations"}
Methods == {"LIST", "GET", "POST", "PUT", "DELETE"}
Slots == 1..MaxReq
\* The id of a request whose path has none (GET / and POST /).
NoId == 0
\* The first id the store generates for a table.
FirstId == 1
Ids == FirstId..MaxId
\* req.body of a request without a JSON body: express.json() leaves {}.
NoBody == << >>
Undefined == "undefined"
NoError == "null"

\* The store's error messages.
UpstreamError == "upstream failure"
NoRowsError == "JSON object requested, multiple (or no) rows returned"

\* Authorization headers a client sends: none, a malformed one, a bearer
\* token the authentication service rejects (invalid or expired), a valid one.
Headers == {"", "Token abc", "Bearer expired", "Bearer good"}

\* ------------------------------------------------------------- the routers
\* The required fields of each resource, in the order the handlers destructure
\* them from req.body.
RequiredFields(res) ==
    CASE res = "rooms" -> <<"number", "type", "price", "location_id">>
      [] res = "locations" -> <<"name", "address">>
      [] res = "reservations" -> <<"user_id", "room_id", "check_in", "check_out">>

FieldSet(res) == {RequiredFields(res)[i] : i \in 1..Len(RequiredFields(res))}

\* The resource's name in the handlers' messages.
Label(res) ==
    CASE res = "rooms" -> "Room"
      [] res = "locations" -> "Location"
      [] res = "reservations" -> "Reservation"

\* The 400 message of the resource's POST and PUT handlers.
ValidationMessage(res) ==
    IF res = "locations" THEN "Name and address are required"
    ELSE "All fields are required"

\* JavaScript's ToBoolean on a literal: `!x` is true of these.
Falsy == {"undefined", "null", "0", "''", "false", "NaN"}

Truthy(v) == v \notin Falsy

\* The day of the month a date literal names.
Day(date) ==
    CASE date = "'2023-06-01'" -> 1
      [] date = "'2023-06-05'" -> 5

\* The condition with a rule on the dates of a reservation added.
BodyValidDates(res, body) ==
    /\ \A f \in FieldSet(res) : f \in DOMAIN body /\ Truthy(body[f])
    /\ res = "reservations" => Day(body["check_in"]) < Day(body["check_out"])

\* The condition as a test of presence: `field === undefined`.
BodyValidPresent(res, body) ==
    \A f \in FieldSet(res) : f \in DOMAIN body /\ body[f] # Undefined

\* The condition with its last operand forgotten.
BodyValidButLast(res, body) ==
    \A i \in 1..(Len(RequiredFields(res)) - 1) :
        RequiredFields(res)[i] \in DOMAIN body /\ Truthy(body[RequiredFields(res)[i]])

\* The handlers' `if (!a || !b || ...)`: every required field is truthy.
BodyValid(res, body) ==
    \A f \in FieldSet(res) : f \in DOMAIN body /\ Truthy(body[f])

\* The reservations router wired like the other two: reads without the gate.
GatedWritesOnly(res, method) == method \in {"POST", "PUT", "DELETE"}

\* authMiddleware on every route of every router.
GatedEverywhere(res, method) == TRUE

\* The routes declared with authMiddleware: POST, PUT and DELETE of rooms and
\* of locations, and every route of reservations.
Gated(res, method) ==
    \/ res = "reservations"
    \/ method \in {"POST", "PUT", "DELETE"}

\* req.body itself handed to insert() and update().
PickedWhole(res, body) == body

\* The object literal a handler hands to insert() and update(): the required
\* fields destructured from the body, and nothing else of it.
Picked(res, body) ==
    [f \in FieldSet(res) |-> IF f \in DOMAIN body THEN body[f] ELSE Undefined]

\* The store call each handler awaits.
ListQuery(res) ==
    [op |-> "select", table |-> res, id |-> NoId, values |-> NoBody, single |-> FALSE]

GetQuery(res, id) ==
    [op |-> "select", table |-> res, id |-> id, values |-> NoBody, single |-> TRUE]

\* The object literal with its last property forgotten.
PickedButLast(res, body) ==
    [f \in FieldSet(res) \ {RequiredFields(res)[Len(RequiredFields(res))]} |-> body[f]]

\* insert() given that literal.
InsertQueryButLast(res, body) ==
    [op |-> "insert", table |-> res, id |-> NoId, values |-> PickedButLast(res, body),
     single |-> TRUE]

InsertQuery(res, body) ==
    [op |-> "insert", table |-> res, id |-> NoId, values |-> Picked(res, body),
     single |-> TRUE]

\* update() given the first property only.
UpdateQueryFirstOnly(res, id, body) ==
    [op |-> "update", table |-> res, id |-> id,
     values |-> [f \in {RequiredFields(res)[1]} |-> body[f]], single |-> TRUE]

\* update() given that literal.
UpdateQueryButLast(res, id, body) ==
    [op |-> "update", table |-> res, id |-> id, values |-> PickedButLast(res, body),
     single |-> TRUE]

UpdateQuery(res, id, body) ==
    [op |-> "update", table |-> res, id |-> id, values |-> Picked(res, body),
     single |-> TRUE]

\* The delete as the rooms router has it, its table name kept in the other
\* routers.
DeleteQueryOfRooms(res, id) ==
    [op |-> "delete", table |-> "rooms", id |-> id, values |-> NoBody, single |-> FALSE]

\* The delete with its .eq('id', ...) forgotten.
DeleteQueryNoFilter(res, id) ==
    [op |-> "delete", table |-> res, id |-> NoId, values |-> NoBody, single |-> FALSE]

DeleteQuery(res, id) ==
    [op |-> "delete", table |-> res, id |-> id, values |-> NoBody, single |-> FALSE]

Query(res, method, id, body) ==
    CASE method = "LIST" -> ListQuery(res)
      [] method = "GET" -> GetQuery(res, id)
      [] method = "POST" -> InsertQuery(res, body)
      [] method = "PUT" -> UpdateQuery(res, id, body)
      [] method = "DELETE" -> DeleteQuery(res, id)

\* A response: the status and the JSON body (rows, an error or a message).
Response(status, data, error, message) ==
    [status |-> status, data |-> data, error |-> error, message |-> message]

NoResponse == Response(0, {}, "", "")

ErrorResponse(status, msg) == Response(status, {}, msg, "")

\* What each handler does with the store's {data, error}.
ListRespond(res, result) ==
    IF result.error # NoError THEN ErrorResponse(500, result.error)
    ELSE Response(200, result.rows, "", "")

GetRespond(res, result) ==
    IF result.error # NoError THEN ErrorResponse(500, result.error)
    ELSE IF result.rows = {} THEN ErrorResponse(404, Label(res) \o " not found")
    ELSE Response(200, result.rows, "", "")

\* The handler without its `if (error) throw error`.
PostRespondNoThrow(res, result) == Response(201, result.rows, "", "")

PostRespond(res, result) ==
    IF result.error # NoError THEN ErrorResponse(500, result.error)
    ELSE Response(201, result.rows, "", "")

PutRespond(res, result) ==
    IF result.error # NoError THEN ErrorResponse(500, result.error)
    ELSE IF result.rows = {} THEN ErrorResponse(404, Label(res) \o " not found")
    ELSE Response(200, result.rows, "", "")

\* The handler without its `data.length === 0` check.
DeleteRespondNoCheck(res, result) ==
    IF result.error # NoError THEN ErrorResponse(500, result.error)
    ELSE Response(200, {}, "", Label(res) \o " deleted successfully")

DeleteRespond(res, result) ==
    IF result.error # NoError THEN ErrorResponse(500, result.error)
    ELSE IF result.rows = {} THEN ErrorResponse(404, Label(res) \o " not found")
    ELSE Response(200, {}, "", Label(res) \o " deleted successfully")

\* ------------------------------------------------------------ the auth gate
\* The authentication service accepts the token of a well-formed bearer header.
TokenValid(header) == header = "Bearer good"

UnauthorizedResponse == ErrorResponse(401, "Unauthorized")

\* ---------------------------------------------------------------- the store
\* The rows of a table a filter on id matches (all of them without a filter).
Matched(rows, id) ==
    IF id = NoId THEN rows ELSE {row \in rows : row.id = id}

\* A row with the columns of `values` overwritten and the others kept.
Updated(row, values) ==
    [f \in DOMAIN row |-> IF f \in DOMAIN values THEN values[f] ELSE row[f]]

\* One statement executed by the store: the answer {rows, error}, the table
\* afterwards and the id generator afterwards.  `fail`: the store is
\* unreachable or rejects the statement; nothing is written then.  `strict`:
\* the single-row mode reports "no rows" as an error instead of null data.
StoreCall(q, rows, next, fail, strict) ==
    LET hit == Matched(rows, q.id)
        unchanged(r, e) == [rows |-> r, error |-> e, table |-> rows, next |-> next]
    IN  IF fail THEN unchanged({}, UpstreamError)
        ELSE IF q.op = "insert" THEN
            LET row == ("id" :> next) @@ q.values
            IN  [rows |-> {row}, error |-> NoError,
                 table |-> rows \cup {row}, next |-> next + 1]
        ELSE IF q.single /\ hit = {} /\ strict THEN unchanged({}, NoRowsError)
        ELSE IF q.op = "select" THEN unchanged(hit, NoError)
        ELSE IF q.op = "update" THEN
            LET new == {Updated(row, q.values) : row \in hit}
            IN  [rows |-> new, error |-> NoError,
                 table |-> (rows \ hit) \cup new, next |-> next]
        ELSE [rows |-> hit, error |-> NoError, table |-> rows \ hit, next |-> next]

\* ------------------------------------------------------------ the requests
\* The values clients give each field, as literals: the first client's, then
\* the second's.
Values(f) ==
    CASE f = "number" -> <<"'101'", "'102'">>
      [] f = "type" -> <<"'single'">>
      [] f = "price" -> <<"80", "120">>
      [] f = "location_id" -> <<"'1'">>
      [] f = "name" -> <<"'Hotel Central'", "'Hotel Norte'">>
      [] f = "address" -> <<"'123 Main St'">>
      [] f = "user_id" -> <<"'123'">>
      [] f = "room_id" -> <<"'1'">>
      [] f = "check_in" -> <<"'2023-06-01'", "'2023-06-05'">>
      [] f = "check_out" -> <<"'2023-06-05'", "'2023-06-01'">>

\* What a careless client sends instead: nothing, or an empty value.
Blanks(f) ==
    CASE f \in {"number", "name"} -> {Undefined, "''"}
      [] f = "price" -> {Undefined, "0"}
      [] OTHER -> {Undefined}

\* The body client r writes when it fills every field in: its own values.
ClientBody(r, res) ==
    [f \in FieldSet(res) |-> Values(f)[((r - 1) % Len(Values(f))) + 1]]

\* What the careless client puts in a field: a blank or the first client's value.
FieldValues(f) == Blanks(f) \cup {Values(f)[1]}

RoomBodies ==
    {[number |-> n, type |-> t, price |-> p, location_id |-> l] :
        n \in FieldValues("number"), t \in FieldValues("type"),
        p \in FieldValues("price"), l \in FieldValues("location_id")}

LocationBodies ==
    {[name |-> n, address |-> a] :
        n \in FieldValues("name"), a \in FieldValues("address")}

ReservationBodies ==
    {[user_id |-> u, room_id |-> m, check_in |-> i, check_out |-> o] :
        u \in FieldValues("user_id"), m \in FieldValues("room_id"),
        i \in FieldValues("check_in"), o \in FieldValues("check_out")}

\* A complete body that also names an id, that of the table's second record:
\* req.body is whatever JSON the client sent.
MeddlingBody(res) == ("id" :> (FirstId + 1)) @@ ClientBody(1, res)

\* The bodies of POST and PUT requests: every client's complete body, the
\* meddling one and the careless client's.
Bodies(res) ==
    {ClientBody(r, res) : r \in Slots} \cup {MeddlingBody(res)} \cup
    (CASE res = "rooms" -> RoomBodies
       [] res = "locations" -> LocationBodies
       [] res = "reservations" -> ReservationBodies)

\* A request as the router sees it.
Request(res, method, id, auth, body) ==
    [res |-> res, method |-> method, id |-> id, auth |-> auth, body |-> body]

RequestsOf(res, method, headers) ==
    {Request(res, method, id, auth, body) :
        id \in (IF method \in {"GET", "PUT", "DELETE"} THEN Ids ELSE {NoId}),
        auth \in headers,
        body \in (IF method \in {"POST", "PUT"} THEN Bodies(res) ELSE {NoBody})}

\* Every request a client can send.
Requests ==
    UNION {RequestsOf(res, method, Headers) : res \in Resources, method \in Methods}

\* The requests of client r when it authenticates, fills every field in and
\* works on the first record of a table.
WellFormed(r) ==
    {q \in UNION {RequestsOf(res, method, {"Bearer good"}) :
                    res \in Resources, method \in Methods} :
        /\ q.id \in {NoId, FirstId}
        /\ q.method \in {"POST", "PUT"} => q.body = ClientBody(r, q.res)}

\* ---------------------------------------------------------------- the state
\* db[res]: the rows of the table.  nextId[res]: the store's id generator.
\* strictSingle: the store's single-row mode (fixed by its configuration).
\* reqs[r]: the request in slot r, its position in its chain, the store's
\* answer, whether its id matched a row when the store executed the call,
\* the response, and the number of store calls it has made.
VARIABLES db, nextId, strictSingle, reqs

vars == <<db, nextId, strictSingle, reqs>>

NoResult == [rows |-> {}, error |-> NoError]

Idle ==
    [pc |-> "idle", req |-> Request("rooms", "LIST", NoId, "", NoBody),
     result |-> NoResult, hit |-> FALSE, calls |-> 0, resp |-> NoResponse]

Init ==
    /\ db = [res \in Resources |-> {}]
    /\ nextId = [res \in Resources |-> FirstId]
    /\ strictSingle \in BOOLEAN
    /\ reqs = [r \in Slots |-> Idle]

Created ==
    (nextId["rooms"] - FirstId) + (nextId["locations"] - FirstId)
        + (nextId["reservations"] - FirstId)

Free(r) == reqs[r].pc = "idle"

\* The router matches method and path and starts the route's chain.
Accept(r, q) ==
    /\ Free(r)
    /\ reqs' = [reqs EXCEPT ![r] =
                 [Idle EXCEPT !.pc = IF Gated(q.res, q.method) THEN "auth" ELSE "handler",
                              !.req = q]]
    /\ UNCHANGED <<db, nextId, strictSingle>>

\* One client at a time: a request arrives when no other is being served.
Receive ==
    /\ \A r \in Slots : Free(r)
    /\ \E q \in Requests : Accept(1, q)

\* Concurrent clients of one resource, sending well-formed requests: handlers
\* of different resources share no table, so they do not interfere.
ReceiveConc(r) ==
    \E q \in WellFormed(r) :
        /\ \A t \in Resources \ {q.res} : nextId[t] = FirstId
        /\ \A o \in Slots : Free(o) \/ reqs[o].req.res = q.res
        /\ Accept(r, q)

\* authMiddleware: 401 and the chain stops, or next().
AuthMiddleware(r) ==
    /\ reqs[r].pc = "auth"
    /\ reqs' = [reqs EXCEPT ![r] =
                 IF TokenValid(reqs[r].req.auth)
                 THEN [@ EXCEPT !.pc = "handler"]
                 ELSE [@ EXCEPT !.pc = "done", !.resp = UnauthorizedResponse]]
    /\ UNCHANGED <<db, nextId, strictSingle>>

\* A handler up to its await: the store call is issued.
Await(r) ==
    /\ reqs' = [reqs EXCEPT ![r] = [@ EXCEPT !.pc = "await", !.calls = @ + 1]]
    /\ UNCHANGED <<db, nextId, strictSingle>>

\* A handler that writes its response and does not end it.
SendAndStay(r, resp) ==
    /\ reqs' = [reqs EXCEPT ![r] = [@ EXCEPT !.resp = resp]]
    /\ UNCHANGED <<db, nextId, strictSingle>>

\* A handler after its await: the response is sent.
Send(r, resp) ==
    /\ reqs' = [reqs EXCEPT ![r] = [@ EXCEPT !.pc = "done", !.resp = resp]]
    /\ UNCHANGED <<db, nextId, strictSingle>>

At(r, method, pc) == reqs[r].pc = pc /\ reqs[r].req.method = method

\* The handler with its validation forgotten.
ValidateNothing(r) == Await(r)

\* POST and PUT: the 400 before any store call.
Validate(r) ==
    IF BodyValid(reqs[r].req.res, reqs[r].req.body) THEN Await(r)
    ELSE Send(r, ErrorResponse(400, ValidationMessage(reqs[r].req.res)))

ListHandler(r) ==
    \/ At(r, "LIST", "handler") /\ Await(r)
    \/ At(r, "LIST", "reply") /\ Send(r, ListRespond(reqs[r].req.res, reqs[r].result))

GetHandler(r) ==
    \/ At(r, "GET", "handler") /\ Await(r)
    \/ At(r, "GET", "reply") /\ Send(r, GetRespond(reqs[r].req.res, reqs[r].result))

PostHandler(r) ==
    \/ At(r, "POST", "handler") /\ Validate(r)
    \/ At(r, "POST", "reply") /\ Send(r, PostRespond(reqs[r].req.res, reqs[r].result))

PutHandler(r) ==
    \/ At(r, "PUT", "handler") /\ Validate(r)
    \/ At(r, "PUT", "reply") /\ Send(r, PutRespond(reqs[r].req.res, reqs[r].result))

DeleteHandler(r) ==
    \/ At(r, "DELETE", "handler") /\ Await(r)
    \/ At(r, "DELETE", "reply") /\ Send(r, DeleteRespond(reqs[r].req.res, reqs[r].result))

\* The store executes the awaited call, or fails it; it refuses an insert
\* once MaxId or MaxTotal is reached.
StoreExecute(r) ==
    /\ reqs[r].pc = "await"
    /\ LET q == reqs[r].req
           call == Query(q.res, q.method, q.id, q.body)
           full == call.op = "insert" /\ (nextId[q.res] > MaxId \/ Created >= MaxTotal)
       IN  \E fail \in (IF full THEN {TRUE} ELSE BOOLEAN) :
             LET a == StoreCall(call, db[call.table], nextId[call.table], fail, strictSingle)
             IN  /\ db' = [db EXCEPT ![call.table] = a.table]
                 /\ nextId' = [nextId EXCEPT ![call.table] = a.next]
                 /\ reqs' = [reqs EXCEPT ![r] =
                              [@ EXCEPT !.pc = "reply",
                                        !.result = [rows |-> a.rows, error |-> a.error],
                                        !.hit = Matched(db[call.table], call.id) # {}]]
    /\ UNCHANGED strictSingle

\* The response has been written out: the slot serves the next request.
Close(r) ==
    /\ reqs[r].pc = "done"
    /\ reqs' = [reqs EXCEPT ![r] = Idle]
    /\ UNCHANGED <<db, nextId, strictSingle>>

Step(r) ==
    \/ AuthMiddleware(r)
    \/ ListHandler(r)
    \/ GetHandler(r)
    \/ PostHandler(r)
    \/ PutHandler(r)
    \/ DeleteHandler(r)
    \/ StoreExecute(r)
    \/ Close(r)

Next ==
    \/ Receive
    \/ \E r \in Slots : Step(r)

Spec == Init /\ [][Next]_vars

NextConc ==
    \/ \E r \in Slots : ReceiveConc(r)
    \/ \E r \in Slots : Step(r)

SpecConc == Init /\ [][NextConc]_vars

\* The steps of slot r that run in the server process: the middleware and the
\* handler up to its await and after it.
Handler(r) ==
    \/ AuthMiddleware(r)
    \/ ListHandler(r)
    \/ GetHandler(r)
    \/ PostHandler(r)
    \/ PutHandler(r)
    \/ DeleteHandler(r)

\* The event loop runs every callback that is ready: a middleware or handler
\* step that stays enabled is taken.  Nothing is assumed of the clients nor of
\* the store, which may leave a call unanswered.
SpecLive == SpecConc /\ \A r \in Slots : WF_vars(Handler(r))

\* =================================================================== claims
Active(r) == reqs[r].pc # "idle"
Done(r) == reqs[r].pc = "done"
\* Slot r takes the step.
Moved(r) == reqs'[r] # reqs[r]
StoreUnchanged == db' = db /\ nextId' = nextId
\* The headers that carry no valid bearer token.
BadHeaders == {"", "Token abc", "Bearer expired"}
\* The routes the interface table marks "auth required".
AuthRequired(q) ==
    \/ q.res \in {"rooms", "locations"} /\ q.method \in {"POST", "PUT", "DELETE"}
    \/ q.res = "reservations" /\ q.method \in Methods
Rejected(r) ==
    /\ Active(r)
    /\ AuthRequired(reqs[r].req)
    /\ reqs[r].req.auth \in BadHeaders

C1_State ==
    \A r \in Slots : Rejected(r) =>
        /\ reqs[r].pc \in {"auth", "done"}
        /\ reqs[r].calls = 0
        /\ Done(r) => reqs[r].resp.status = 401 /\ reqs[r].resp.error # ""

C1_Step ==
    \A r \in Slots : Rejected(r) /\ Moved(r) => StoreUnchanged

\* C1: a request on a gated route (POST, PUT, DELETE of rooms and locations,
\* every method of reservations) without a valid bearer token never reaches
\* its handler, makes no store call, is answered 401, and none of its steps
\* changes a table.
C1_Unauthorized == [](C1_State) /\ [][C1_Step]_vars

\* A GET of a reservation with an expired token has been answered 401.
C1_Witness ==
    \E r \in Slots :
        /\ Done(r)
        /\ reqs[r].req.res = "reservations" /\ reqs[r].req.method = "GET"
        /\ reqs[r].req.auth = "Bearer expired"
        /\ reqs[r].resp.status = 401

\* A field the body does not carry.
Missing(q) == {f \in FieldSet(q.res) : q.body[f] = Undefined}
Authenticated(r) ==
    /\ Active(r)
    /\ reqs[r].pc # "auth"
    /\ reqs[r].req.auth = "Bearer good"
Incomplete(r) ==
    /\ Authenticated(r)
    /\ reqs[r].req.method \in {"POST", "PUT"}
    /\ Missing(reqs[r].req) # {}

C2_State ==
    \A r \in Slots : Incomplete(r) =>
        /\ reqs[r].pc \in {"handler", "done"}
        /\ reqs[r].calls = 0
        /\ Done(r) =>
            /\ reqs[r].resp.status = 400
            /\ reqs[r].resp.error = ValidationMessage(reqs[r].req.res)

C2_Step ==
    \A r \in Slots : Incomplete(r) /\ Moved(r) => StoreUnchanged

\* C2: an authenticated POST or PUT whose body lacks any required field is
\* answered 400 with the resource's message, whichever field is missing; it
\* makes no store call and none of its steps changes a table.
C2_MissingField == [](C2_State) /\ [][C2_Step]_vars

\* PUT /locations/{id} with a name and no address has been answered 400, the
\* table holding a location.
C2_Witness ==
    /\ \E r \in Slots :
        /\ Done(r) /\ Authenticated(r)
        /\ reqs[r].req.res = "locations" /\ reqs[r].req.method = "PUT"
        /\ Missing(reqs[r].req) = {"address"}
        /\ reqs[r].resp.status = 400
    /\ db["locations"] # {}

\* The store has executed slot r's call in this step.
Executes(r, method) ==
    /\ reqs[r].pc = "await" /\ reqs'[r].pc = "reply"
    /\ reqs[r].req.method = method
Answered(r) == reqs[r].calls >= 1 /\ reqs[r].pc \in {"reply", "done"}
\* The rows of table t whose id is i.
RowsOf(t, i) == {row \in db[t] : row.id = i}
OtherTablesUnchanged(t) == \A o \in Resources \ {t} : db'[o] = db[o]
NotFoundMessage(res) ==
    CASE res = "rooms" -> "Room not found"
      [] res = "locations" -> "Location not found"
      [] res = "reservations" -> "Reservation not found"

\* C3: a GET by id, PUT or DELETE (authenticated, complete body) whose id matches
\* no row is answered 404 with a non-empty error, the store being reachable.
C3_NotFound ==
    \A r \in Slots :
        ( /\ Done(r)
          /\ reqs[r].req.method \in {"GET", "PUT", "DELETE"}
          /\ reqs[r].calls = 1
          /\ ~reqs[r].hit
          /\ reqs[r].result.error # UpstreamError )
        => reqs[r].resp.status = 404 /\ reqs[r].resp.error # ""

\* Every required field carries one of the values clients give it.
Complete(q) ==
    \A f \in FieldSet(q.res) : \E i \in 1..Len(Values(f)) : q.body[f] = Values(f)[i]
\* Row `row` of resource res carries the fields of body b.
Carries(res, row, b) ==
    /\ DOMAIN row = FieldSet(res) \cup {"id"}
    /\ \A f \in FieldSet(res) : row[f] = b[f]
Writes(r, method) ==
    /\ Authenticated(r)
    /\ reqs[r].req.method = method
    /\ Complete(reqs[r].req)

C4_State ==
    \A r \in Slots : Done(r) /\ Writes(r, "POST") =>
        /\ reqs[r].calls = 1
        /\ reqs[r].result.error = NoError =>
            /\ reqs[r].resp.status = 201
            /\ reqs[r].resp.data = reqs[r].result.rows
            /\ \E row \in reqs[r].resp.data :
                /\ reqs[r].resp.data = {row}
                /\ Carries(reqs[r].req.res, row, reqs[r].req.body)
                /\ row.id # NoId

C4_Step ==
    \A r \in Slots :
        Executes(r, "POST") /\ reqs'[r].result.error = NoError =>
            LET t == reqs[r].req.res
                new == reqs'[r].result.rows
            IN  /\ Cardinality(new) = 1
                /\ \A row \in new : RowsOf(t, row.id) = {}
                /\ db'[t] = db[t] \cup new
                /\ OtherTablesUnchanged(t)

\* C4: an authenticated POST with every required field, when the store call
\* succeeds, is answered 201 with one record that carries every supplied field
\* unchanged and a generated id no other record has; the table afterwards is
\* the table before plus exactly that record, the other tables unchanged.
C4_Create == [](C4_State) /\ [][C4_Step]_vars

\* POST /reservations has been answered 201 with the record now in the table,
\* next to an older one.
C4_Witness ==
    \E r \in Slots :
        /\ Done(r) /\ Writes(r, "POST")
        /\ reqs[r].req.res = "reservations"
        /\ reqs[r].resp.status = 201
        /\ reqs[r].resp.data \subseteq db["reservations"]
        /\ Cardinality(db["reservations"]) = 2

C5_State ==
    \A r \in Slots :
        ( /\ Done(r) /\ Writes(r, "PUT")
          /\ reqs[r].hit
          /\ reqs[r].result.error = NoError )
        => /\ reqs[r].resp.status = 200
           /\ \E row \in reqs[r].resp.data :
                /\ reqs[r].resp.data = {row}
                /\ Carries(reqs[r].req.res, row, reqs[r].req.body)
                /\ row.id = reqs[r].req.id

C5_Step ==
    \A r \in Slots :
        ( /\ Executes(r, "PUT")
          /\ reqs'[r].result.error = NoError
          /\ RowsOf(reqs[r].req.res, reqs[r].req.id) # {} )
        => LET t == reqs[r].req.res
               i == reqs[r].req.id
           IN  /\ \E row \in db'[t] :
                    /\ {o \in db'[t] : o.id = i} = {row}
                    /\ Carries(t, row, reqs[r].req.body)
               /\ {o \in db'[t] : o.id # i} = {o \in db[t] : o.id # i}
               /\ OtherTablesUnchanged(t)

\* C5: an authenticated PUT with every required field on an id the table
\* holds, when the store call succeeds, is answered 200 with the updated
\* record; the row of that id then holds exactly the supplied values, and
\* every other row and table is unchanged.
C5_Update == [](C5_State) /\ [][C5_Step]_vars

\* PUT /reservations/{id} has been answered 200 with a record that differs
\* from the other record of the table.
C5_Witness ==
    \E r \in Slots :
        /\ Done(r) /\ Writes(r, "PUT")
        /\ reqs[r].req.res = "reservations"
        /\ reqs[r].resp.status = 200
        /\ reqs[r].resp.data \subseteq db["reservations"]
        /\ \E o \in db["reservations"] :
            /\ o.id # reqs[r].req.id
            /\ o.check_out # reqs[r].req.body.check_out

DeletedMessage(res) ==
    CASE res = "rooms" -> "Room deleted successfully"
      [] res = "locations" -> "Location deleted successfully"
      [] res = "reservations" -> "Reservation deleted successfully"
Deletes(r) == Authenticated(r) /\ reqs[r].req.method = "DELETE"

C6_State ==
    \A r \in Slots :
        ( /\ Done(r) /\ Deletes(r)
          /\ reqs[r].hit
          /\ reqs[r].result.error = NoError )
        => /\ reqs[r].resp.status = 200
           /\ reqs[r].resp.message = DeletedMessage(reqs[r].req.res)
           /\ reqs[r].resp.error = ""
           /\ RowsOf(reqs[r].req.res, reqs[r].req.id) = {}

C6_Step ==
    \A r \in Slots :
        ( /\ Executes(r, "DELETE")
          /\ reqs'[r].result.error = NoError
          /\ RowsOf(reqs[r].req.res, reqs[r].req.id) # {} )
        => LET t == reqs[r].req.res
               i == reqs[r].req.id
           IN  /\ db'[t] = {o \in db[t] : o.id # i}
               /\ OtherTablesUnchanged(t)

\* C6: an authenticated DELETE of an id the table holds, when the store call
\* succeeds, is answered 200 with the confirmation message; the row of that id
\* is gone from the table and every other row and table is unchanged.
C6_Delete == [](C6_State) /\ [][C6_Step]_vars

\* DELETE /rooms/{id} has been answered 200 and the other room is still there.
C6_Witness ==
    \E r \in Slots :
        /\ Done(r) /\ Deletes(r)
        /\ reqs[r].req.res = "rooms"
        /\ reqs[r].resp.status = 200
        /\ Cardinality(db["rooms"]) = 1
        /\ nextId["rooms"] = 3

\* The id was generated and its row is gone.
Deleted(t, i) == i # NoId /\ i < nextId[t] /\ RowsOf(t, i) = {}

C7_State ==
    \A r \in Slots :
        ( /\ Done(r) /\ Deletes(r)
          /\ ~reqs[r].hit
          /\ reqs[r].result.error = NoError )
        => /\ reqs[r].resp.status = 404
           /\ reqs[r].resp.error = NotFoundMessage(reqs[r].req.res)

C7_Step ==
    \A r \in Slots :
        Executes(r, "DELETE") /\ Deleted(reqs[r].req.res, reqs[r].req.id) =>
            /\ StoreUnchanged
            /\ reqs'[r].result.error = NoError => ~reqs'[r].hit

\* C7: an authenticated DELETE of an id whose row has already been deleted
\* is answered 404 every time the store answers it, and the store's execution
\* of it leaves every table as it was.
C7_DeleteAgain == [](C7_State) /\ [][C7_Step]_vars

\* Two DELETEs of the same deleted id have both been answered 404.
C7_Witness ==
    \E r1, r2 \in Slots :
        /\ r1 # r2
        /\ Done(r1) /\ Deletes(r1) /\ Done(r2) /\ Deletes(r2)
        /\ reqs[r1].req.res = reqs[r2].req.res
        /\ reqs[r1].req.id = reqs[r2].req.id
        /\ Deleted(reqs[r1].req.res, reqs[r1].req.id)
        /\ reqs[r1].resp.status = 404 /\ reqs[r2].resp.status = 404

\* A read of rooms or locations sent without a valid bearer token.
OpenRead(r) ==
    /\ Active(r)
    /\ reqs[r].req.res \in {"rooms", "locations"}
    /\ reqs[r].req.method \in {"LIST", "GET"}
    /\ reqs[r].req.auth \in BadHeaders

C8_State ==
    \A r \in Slots : OpenRead(r) =>
        /\ reqs[r].pc # "auth"
        /\ reqs[r].resp.status # 401
        /\ Done(r) =>
            /\ reqs[r].calls = 1
            /\ reqs[r].result.error = NoError /\ reqs[r].req.method = "LIST" =>
                /\ reqs[r].resp.status = 200
                /\ reqs[r].resp.data = db[reqs[r].req.res]
            /\ reqs[r].result.error = NoError /\ reqs[r].req.method = "GET" /\ reqs[r].hit =>
                /\ reqs[r].resp.status = 200
                /\ reqs[r].resp.data = RowsOf(reqs[r].req.res, reqs[r].req.id)
                /\ Cardinality(reqs[r].resp.data) = 1

C8_Step ==
    \A r \in Slots : OpenRead(r) /\ Moved(r) => StoreUnchanged

\* C8: a GET of /rooms, /rooms/{id}, /locations or /locations/{id} without a
\* valid bearer token never meets the auth gate and is never answered 401; it
\* makes its store call and, when that call succeeds, is answered 200 with
\* all the rows of the table (list) or the row of the id (an id the table
\* holds); none of its steps changes a table.
C8_OpenReads == [](C8_State) /\ [][C8_Step]_vars

\* GET /locations/{id} without a header has returned the one location of that
\* id, the table holding two.
C8_Witness ==
    \E r \in Slots :
        /\ Done(r) /\ OpenRead(r)
        /\ reqs[r].req.res = "locations" /\ reqs[r].req.method = "GET"
        /\ reqs[r].req.auth = ""
        /\ reqs[r].resp.status = 200
        /\ Cardinality(reqs[r].resp.data) = 1
        /\ Cardinality(db["locations"]) = 2

\* C9: a request whose store call returned an error is answered 500 with the
\* store's message as the body's error, and has made exactly one store call;
\* no request ever makes a second one.
C9_StoreError ==
    \A r \in Slots :
        /\ reqs[r].calls <= 1
        /\ Done(r) /\ reqs[r].calls >= 1 /\ reqs[r].result.error # NoError =>
            /\ reqs[r].resp.status = 500
            /\ reqs[r].resp.error = reqs[r].result.error
            /\ reqs[r].resp.data = {}
            /\ reqs[r].calls = 1

\* POST /reservations has been answered 500 with the store's message.
C9_Witness ==
    \E r \in Slots :
        /\ Done(r)
        /\ reqs[r].req.res = "reservations" /\ reqs[r].req.method = "POST"
        /\ reqs[r].result.error = UpstreamError
        /\ reqs[r].resp.status = 500
        /\ reqs[r].resp.error = UpstreamError

\* A POST or PUT on a gated route.
GatedWrite(r) ==
    /\ Active(r)
    /\ reqs[r].req.method \in {"POST", "PUT"}

C10_State ==
    \A r \in Slots : GatedWrite(r) =>
        /\ reqs[r].req.auth \in BadHeaders /\ Done(r) => reqs[r].resp.status = 401
        /\ reqs[r].calls >= 1 =>
            /\ reqs[r].req.auth = "Bearer good"
            /\ Complete(reqs[r].req)

C10_Step ==
    \A r \in Slots : GatedWrite(r) /\ Moved(r) /\ Active(r)' =>
        /\ reqs[r].pc = "auth" \/ reqs'[r].pc # "handler"
        /\ reqs'[r].pc = "await" => reqs[r].pc = "handler"
        /\ reqs'[r].resp.status = 400 => reqs[r].pc = "handler"
        /\ reqs'[r].calls = reqs[r].calls \/ reqs'[r].pc = "await"

\* C10: on POST and PUT the checks run in the order auth gate, validation,
\* store call: the handler is entered only from the auth gate, 400 is sent and
\* the store call is issued only from the handler, a request with an invalid
\* token is answered 401 whatever its body, and a store call has been made
\* only for a valid token and a complete body.
C10_Order == [](C10_State) /\ [][C10_Step]_vars

\* PUT with a malformed header and a body lacking a field has been answered 401.
C10_Witness ==
    \E r \in Slots :
        /\ Done(r) /\ GatedWrite(r)
        /\ reqs[r].req.method = "PUT"
        /\ reqs[r].req.auth = "Token abc"
        /\ Missing(reqs[r].req) # {}
        /\ reqs[r].resp.status = 401

\* Slot r's request is in the server process: at the gate, or in its handler
\* before the await.
Running(r) == reqs[r].pc \in {"auth", "handler"}
\* The store has answered slot r's call and the handler has not resumed yet.
StoreAnswered(r) == reqs[r].pc = "reply"
\* The request passed the gate and the validation.
Passed(r) == Done(r) /\ reqs[r].resp.status \notin {400, 401}

C11_State ==
    \A r \in Slots :
        /\ reqs[r].calls <= 1
        /\ reqs[r].pc \in {"await", "reply"} => reqs[r].calls = 1
        /\ Passed(r) => reqs[r].calls = 1
        /\ Done(r) <=> reqs[r].resp # NoResponse

C11_Step ==
    \A r \in Slots :
        /\ reqs'[r].resp # reqs[r].resp =>
            \/ reqs[r].resp = NoResponse /\ ~Done(r) /\ Done(r)'
            \/ Done(r) /\ reqs'[r] = Idle
        /\ reqs'[r].calls # reqs[r].calls =>
            \/ reqs[r].calls = 0 /\ reqs[r].pc = "handler" /\ reqs'[r].pc = "await"
            \/ Done(r) /\ reqs'[r] = Idle
        /\ Moved(r) => \A o \in Slots \ {r} : reqs'[o] = reqs[o]

C11_Live ==
    \A r \in Slots :
        /\ Running(r) ~> (reqs[r].pc = "await" \/ Done(r))
        /\ StoreAnswered(r) ~> Done(r)

\* C11: a request that passes the auth gate and the validation issues exactly
\* one store call; once the store has answered that call, with rows or with an
\* error, the request eventually gets its response, whatever the other
\* requests do (the store may leave theirs unanswered for ever); a response
\* is written once, when the request has none, and a step of one request
\* changes nothing of another.
C11_OneCallOneResponse == [](C11_State) /\ [][C11_Step]_vars /\ C11_Live

\* GET /rooms/{id} has been answered 200 after its one store call while a PUT
\* on the same room still awaits the store.
C11_Witness ==
    \E r, o \in Slots :
        /\ Done(r) /\ reqs[r].req.res = "rooms" /\ reqs[r].req.method = "GET"
        /\ reqs[r].calls = 1 /\ reqs[r].resp.status = 200
        /\ reqs[o].req.res = "rooms" /\ reqs[o].req.method = "PUT"
        /\ reqs[o].req.id = reqs[r].req.id
        /\ reqs[o].pc = "await"

\* Two different slots hold valid authenticated PUTs on the same id of the
\* same resource.
SameTarget(r, o) ==
    /\ r # o
    /\ Writes(r, "PUT") /\ Writes(o, "PUT")
    /\ reqs[r].req.res = reqs[o].req.res
    /\ reqs[r].req.id = reqs[o].req.id
\* The store has applied slot r's call to a row.
Applied(r) ==
    /\ reqs[r].pc \in {"reply", "done"}
    /\ reqs[r].hit
    /\ reqs[r].result.error = NoError

\* Every required field of the row is the value one of the two bodies gives it.
Mixes(res, row, a, b) == \A f \in FieldSet(res) : row[f] \in {a[f], b[f]}

C12_State ==
    \A r, o \in Slots : SameTarget(r, o) /\ Applied(r) /\ Applied(o) =>
        LET t == reqs[r].req.res
        IN  /\ Done(r) =>
                /\ reqs[r].resp.status = 200
                /\ \E row \in reqs[r].resp.data :
                    /\ reqs[r].resp.data = {row}
                    /\ Carries(t, row, reqs[r].req.body)
            /\ Cardinality(RowsOf(t, reqs[r].req.id)) <= 1
            /\ \A row \in RowsOf(t, reqs[r].req.id) :
                Mixes(t, row, reqs[r].req.body, reqs[o].req.body) =>
                    \/ Carries(t, row, reqs[r].req.body)
                    \/ Carries(t, row, reqs[o].req.body)

C12_Step ==
    \A r, o \in Slots :
        /\ ( /\ SameTarget(r, o)
             /\ Executes(r, "PUT")
             /\ reqs'[r].result.error = NoError
             /\ RowsOf(reqs[r].req.res, reqs[r].req.id) # {} )
           => LET t == reqs[r].req.res
                  i == reqs[r].req.id
              IN  /\ reqs'[r].hit
                  /\ \E row \in db'[t] :
                        /\ {x \in db'[t] : x.id = i} = {row}
                        /\ Carries(t, row, reqs[r].req.body)
                  /\ {x \in db'[t] : x.id # i} = {x \in db[t] : x.id # i}
        /\ SameTarget(r, o) /\ Moved(r) /\ reqs[r].pc # "await" => StoreUnchanged

\* C12: when two valid authenticated PUTs on the same id are in flight at
\* once, each one the store applies to the row without error is answered 200
\* with its own values; every time the store applies one of them the row holds
\* all the required fields of that request's body (the last one applied wins),
\* and a row made of values of the two bodies is, field for field, one of the
\* two bodies, never a mix; no other step of either request writes to the
\* store.
C12_LastWriteWins == [](C12_State) /\ [][C12_Step]_vars

\* Two PUTs on the same room with different numbers and prices have both been
\* applied before either was answered: the first got its own values back and
\* the room now holds the second's.
C12_Witness ==
    \E r, o \in Slots :
        /\ SameTarget(r, o) /\ reqs[r].req.res = "rooms"
        /\ reqs[r].req.body.number # reqs[o].req.body.number
        /\ reqs[r].req.body.price # reqs[o].req.body.price
        /\ Applied(r) /\ Applied(o)
        /\ reqs[r].pc = "reply" /\ reqs[o].pc = "reply"
        /\ \E row \in reqs[r].result.rows : Carries("rooms", row, reqs[r].req.body)
        /\ \E row \in db["rooms"] :
            /\ row.id = reqs[o].req.id
            /\ Carries("rooms", row, reqs[o].req.body)

\* The ids of a set of rows.
IdsOf(rows) == {row.id : row \in rows}

C13_State ==
    \A t \in Resources :
        /\ \A x, y \in db[t] : x.id = y.id => x = y
        /\ \A x \in db[t] : x.id \in FirstId..(nextId[t] - 1)

C13_Step ==
    \A t \in Resources :
        /\ nextId'[t] >= nextId[t]
        /\ IdsOf(db'[t]) \subseteq IdsOf(db[t]) \cup {nextId[t]}
        /\ \A r \in Slots : reqs[r].req.res = t =>
            /\ Executes(r, "LIST") \/ Executes(r, "GET") => db'[t] = db[t]
            /\ Executes(r, "PUT") =>
                /\ IdsOf(db'[t]) = IdsOf(db[t])
                /\ \A x \in db[t] : x.id # reqs[r].req.id => x \in db'[t]
            /\ Executes(r, "DELETE") => db'[t] \subseteq db[t]
            /\ Executes(r, "POST") => db[t] \subseteq db'[t]

\* C13: in every reachable state no two rows of a table have the same id and
\* every id is one the store generated; no step gives a table an id other
\* than the store's next one; an Update leaves the set of ids of its table as
\* it was and every row of another id untouched, whatever the body names; a
\* List or Get changes nothing, a Delete only removes, a Create only adds.
C13_Identifiers == [](C13_State) /\ [][C13_Step]_vars

\* PUT /rooms/{id} with a body that names another room's id has been answered
\* 200 with the room of the path id, the table holding both rooms.
C13_Witness ==
    \E r \in Slots :
        /\ Done(r) /\ reqs[r].req.res = "rooms" /\ reqs[r].req.method = "PUT"
        /\ reqs[r].req.body = MeddlingBody("rooms")
        /\ reqs[r].req.body["id"] # reqs[r].req.id
        /\ reqs[r].resp.status = 200
        /\ IdsOf(reqs[r].resp.data) = {reqs[r].req.id}
        /\ IdsOf(db["rooms"]) = {reqs[r].req.id, reqs[r].req.body["id"]}

\* A reservation whose stay does not begin before it ends.
Reversed(b) == ~(Day(b["check_in"]) < Day(b["check_out"]))
\* Two reservations of one room whose stays intersect.
Overlap(x, y) ==
    /\ x["room_id"] = y["room_id"]
    /\ Day(x["check_in"]) < Day(y["check_out"])
    /\ Day(y["check_in"]) < Day(x["check_out"])
\* Slot r holds an authenticated POST or PUT of a reservation, four fields given.
Books(r) ==
    /\ reqs[r].req.res = "reservations"
    /\ Writes(r, "POST") \/ Writes(r, "PUT")
\* The body of slot r breaks a booking rule in the present table: its dates
\* are reversed, or it overlaps another reservation of the room.
Conflicting(r) ==
    \/ Reversed(reqs[r].req.body)
    \/ \E x \in db["reservations"] :
        x.id # reqs[r].req.id /\ Overlap(x, reqs[r].req.body)

C14_State ==
    \A r \in Slots : Books(r) =>
        /\ reqs[r].pc \notin {"auth", "handler"} => reqs[r].calls = 1
        /\ Done(r) =>
            /\ reqs[r].resp.status \in {200, 201, 404, 500}
            /\ reqs[r].result.error = NoError /\ reqs[r].req.method = "POST" =>
                reqs[r].resp.status = 201
            /\ reqs[r].result.error = NoError /\ reqs[r].req.method = "PUT" /\ reqs[r].hit =>
                reqs[r].resp.status = 200

C14_Step ==
    \A r \in Slots :
        ( /\ Books(r) /\ Conflicting(r)
          /\ Executes(r, "POST") \/ Executes(r, "PUT")
          /\ reqs'[r].result.error = NoError
          /\ reqs[r].req.method = "PUT" => RowsOf("reservations", reqs[r].req.id) # {} )
        => \E row \in db'["reservations"] :
            /\ Carries("reservations", row, reqs[r].req.body)
            /\ reqs'[r].result.rows = {row}

\* C14: an authenticated POST or PUT of a reservation with the four fields
\* given always reaches the store and is never answered 400: when the store
\* call succeeds it is answered 201 (POST) or 200 (PUT of an id the table
\* holds), and the store writes the reservation as given even when its
\* check_in is not before its check_out and even when it overlaps another
\* reservation of the same room.
C14_NoBookingRule == [](C14_State) /\ [][C14_Step]_vars

\* POST /reservations has been answered 201 and the table holds two
\* overlapping reservations of one room.
C14_Witness ==
    \E r \in Slots :
        /\ Done(r) /\ Books(r) /\ reqs[r].req.method = "POST"
        /\ reqs[r].resp.status = 201
        /\ \E x, y \in db["reservations"] :
            /\ x.id # y.id
            /\ x \in reqs[r].resp.data
            /\ Overlap(x, y)

\* The literal a client writes to refer to the record of id i.
IdLit(i) ==
    CASE i = 1 -> "'1'"
      [] i = 2 -> "'2'"
      [] i = 3 -> "'3'"
      [] OTHER -> "'4'"
\* The rooms that refer to location i.
RoomsAt(i) == {x \in db["rooms"] : x["location_id"] = IdLit(i)}
\* A room whose location, or a reservation whose room, is not in its table.
Dangling(t, row) ==
    CASE t = "rooms" -> \A l \in db["locations"] : IdLit(l.id) # row["location_id"]
      [] t = "reservations" -> \A x \in db["rooms"] : IdLit(x.id) # row["room_id"]
      [] OTHER -> FALSE

C15_State ==
    \A r \in Slots :
        ( /\ Done(r) /\ Writes(r, "POST")
          /\ reqs[r].req.res \in {"rooms", "reservations"}
          /\ reqs[r].result.error = NoError )
        => /\ reqs[r].calls = 1
           /\ reqs[r].resp.status = 201

C15_Step ==
    \A r \in Slots :
        /\ Moved(r) =>
            \A t \in Resources \ {reqs[r].req.res} :
                db'[t] = db[t] /\ nextId'[t] = nextId[t]
        /\ Executes(r, "DELETE") /\ reqs[r].req.res = "locations" =>
            /\ RoomsAt(reqs[r].req.id) \subseteq db'["rooms"]
            /\ db'["rooms"] = db["rooms"]
        /\ ( /\ Executes(r, "POST")
             /\ reqs[r].req.res \in {"rooms", "reservations"}
             /\ reqs'[r].result.error = NoError )
           => \E row \in db'[reqs[r].req.res] \ db[reqs[r].req.res] :
                /\ Carries(reqs[r].req.res, row, reqs[r].req.body)
                /\ db' = [db EXCEPT ![reqs[r].req.res] = @ \cup {row}]

\* C15: a step of a request changes no table but its own resource's: the
\* DELETE of a location leaves the rooms table as it was, the rooms that
\* refer to the deleted location included; a POST of a room or reservation
\* makes one store call, in which the store adds the row whether or not the
\* location or room it names exists, and is answered 201.
C15_OwnCollection == [](C15_State) /\ [][C15_Step]_vars

\* DELETE /locations/{id} has been answered 200 and a room still refers to
\* the location that is gone.
C15_Witness ==
    \E r \in Slots :
        /\ Done(r) /\ Deletes(r) /\ reqs[r].req.res = "locations"
        /\ reqs[r].resp.status = 200
        /\ Deleted("locations", reqs[r].req.id)
        /\ RoomsAt(reqs[r].req.id) # {}
        /\ \A x \in RoomsAt(reqs[r].req.id) : Dangling("rooms", x)

\* The number zero and the empty string.
ZeroOrEmpty == {"0", "''"}
\* Slot r holds an authenticated POST or PUT of a room that gives all four
\* fields, one of them zero or empty.
GivesFalsy(r) ==
    /\ Authenticated(r)
    /\ reqs[r].req.res = "rooms"
    /\ reqs[r].req.method \in {"POST", "PUT"}
    /\ Missing(reqs[r].req) = {}
    /\ \E f \in FieldSet("rooms") : reqs[r].req.body[f] \in ZeroOrEmpty

C16_State ==
    /\ \A r \in Slots : GivesFalsy(r) =>
        /\ reqs[r].pc \in {"handler", "done"}
        /\ reqs[r].calls = 0
        /\ Done(r) =>
            /\ reqs[r].resp.status = 400
            /\ reqs[r].resp.error = "All fields are required"
    /\ \A x \in db["rooms"] :
        /\ x["price"] # "0"
        /\ \A f \in FieldSet("rooms") : x[f] \notin ZeroOrEmpty

C16_Step ==
    \A r \in Slots : GivesFalsy(r) /\ Moved(r) => StoreUnchanged

\* C16: an authenticated POST or PUT of a room that gives all four fields,
\* with price 0 or with an empty string in one of them, is answered 400 "All
\* fields are required" without a store call and without a change to any
\* table; no room in the table ever has price 0 or an empty field.
C16_FalsyIsAbsent == [](C16_State) /\ [][C16_Step]_vars

\* PUT /rooms/{id} with price 0 and the other three fields given has been
\* answered 400, the room keeping its price.
C16_Witness ==
    \E r \in Slots :
        /\ Done(r) /\ GivesFalsy(r) /\ reqs[r].req.method = "PUT"
        /\ reqs[r].req.body["price"] = "0"
        /\ reqs[r].resp.status = 400
        /\ \E x \in RowsOf("rooms", reqs[r].req.id) : x["price"] = "80"

\* Two different slots hold authenticated DELETEs of the same id of the same
\* resource.
SameDelete(r, o) ==
    /\ r # o
    /\ Deletes(r) /\ Deletes(o)
    /\ reqs[r].req.res = reqs[o].req.res
    /\ reqs[r].req.id = reqs[o].req.id
\* The store has answered slot r's call without error.
StoreOk(r) == reqs[r].pc \in {"reply", "done"} /\ reqs[r].result.error = NoError

C17_State ==
    \A r, o \in Slots : SameDelete(r, o) /\ StoreOk(r) /\ StoreOk(o) =>
        /\ ~(reqs[r].hit /\ reqs[o].hit)
        /\ reqs[r].hit \/ reqs[o].hit =>
            /\ RowsOf(reqs[r].req.res, reqs[r].req.id) = {}
            /\ Done(r) /\ Done(o) =>
                /\ {reqs[r].resp.status, reqs[o].resp.status} = {200, 404}
                /\ reqs[r].resp.status = 200 <=> reqs[r].hit

C17_Step ==
    \A r, o \in Slots : SameDelete(r, o) /\ Executes(r, "DELETE") =>
        LET t == reqs[r].req.res
            i == reqs[r].req.id
        IN  /\ OtherTablesUnchanged(t)
            /\ {x \in db'[t] : x.id # i} = {x \in db[t] : x.id # i}
            /\ reqs'[r].result.error = NoError /\ RowsOf(t, i) # {} =>
                /\ reqs'[r].hit
                /\ db'[t] = db[t] \ RowsOf(t, i)
                /\ ~(StoreOk(o) /\ reqs[o].hit)
            /\ StoreOk(o) /\ reqs[o].hit => db'[t] = db[t] /\ ~reqs'[r].hit

\* C17: of two authenticated DELETEs of the same id in flight at once, the
\* store calls succeeding, at most one finds the row: the one the store
\* executes while the row exists removes exactly that row and is answered
\* 200, the one executed after it changes nothing and is answered 404; no
\* other row and no other table changes in either execution.
C17_DeleteOnce == [](C17_State) /\ [][C17_Step]_vars

\* Two DELETEs of the same reservation, held by the two slots together, have
\* been answered 200 and 404; the other reservation is still in the table.
C17_Witness ==
    \E r, o \in Slots :
        /\ SameDelete(r, o) /\ reqs[r].req.res = "reservations"
        /\ Done(r) /\ Done(o)
        /\ reqs[r].resp.status = 200 /\ reqs[o].resp.status = 404
        /\ Deleted("reservations", reqs[r].req.id)
        /\ Cardinality(db["reservations"]) = 1
====
